---- MODULE Spec2Model ----
(***************************************************************************)
(* Kernel SHAP explainer (shap/explainers/kernel.py, class                 *)
(* KernelExplainer): construction, and the per-instance pipeline of        *)
(* explain(): varying_groups -> allocate -> exact enumeration of           *)
(* coalitions -> random sampling with de-duplication -> run -> solve.      *)
(*                                                                         *)
(* Floating point numbers are modelled as exact rationals <<n, d>> in      *)
(* lowest terms with d > 0.  Python indices are 0-based; sequences here    *)
(* are 1-based, so row index i of the source is element i + 1 of the       *)
(* sequence, while cursors and counts (nsamplesAdded, nsamplesRun,         *)
(* ind_set_pos) keep their source values.  Only the dense background       *)
(* representation and the identity link are modelled.                      *)
(***************************************************************************)
EXTENDS Integers, Sequences, FiniteSets, TLC

(***************************************************************************)
(* Bounds of the model.                                                    *)
(***************************************************************************)
\* number of columns of the background data (P)
NumCols == 4
\* number of explain() calls made one after another on one Explainer (SpecSeq)
MaxCalls == 2

(***************************************************************************)
(* Exact rational arithmetic.                                              *)
(***************************************************************************)
Abs(n) == IF n < 0 THEN -n ELSE n

RECURSIVE Gcd(_, _)
Gcd(a, b) == IF b = 0 THEN a ELSE Gcd(b, a % b)

Rat(n, d) ==
    LET g == Gcd(Abs(n), Abs(d))
        s == IF d < 0 THEN -1 ELSE 1
    IN  <<(s * n) \div g, (s * d) \div g>>

R(n) == <<n, 1>>
RZero == R(0)
ROne == R(1)
RAdd(a, b) ==
    IF a[1] = 0 THEN b
    ELSE IF b[1] = 0 THEN a
    ELSE IF a[2] = b[2] THEN Rat(a[1] + b[1], a[2])
    ELSE LET g == Gcd(a[2], b[2])
         IN  Rat(a[1] * (b[2] \div g) + b[1] * (a[2] \div g), (a[2] \div g) * b[2])
RNeg(a) == <<-a[1], a[2]>>
RSub(a, b) == RAdd(a, RNeg(b))
RMul(a, b) ==
    IF a[1] = 0 \/ b[1] = 0 THEN RZero
    ELSE IF a = ROne THEN b
    ELSE IF b = ROne THEN a
    ELSE LET g == Gcd(Abs(a[1]), b[2])
             h == Gcd(Abs(b[1]), a[2])
         IN  <<(a[1] \div g) * (b[1] \div h), (a[2] \div h) * (b[2] \div g)>>
RDiv(a, b) == RMul(a, IF b[1] < 0 THEN <<-b[2], -b[1]>> ELSE <<b[2], b[1]>>)
RLt(a, b) == a[1] * b[2] < b[1] * a[2]
RLeq(a, b) == a[1] * b[2] <= b[1] * a[2]
RAbs(a) == <<Abs(a[1]), a[2]>>

\* a sequence given as a function, with its elements computed once
Array(f) == SubSeq(f, 1, Len(f))

RECURSIVE RSumTo(_, _)
RSumTo(s, n) == IF n = 0 THEN RZero ELSE RAdd(RSumTo(s, n - 1), s[n])
RSum(s) == RSumTo(Array(s), Len(s))

RECURSIVE ISumTo(_, _)
ISumTo(s, n) == IF n = 0 THEN 0 ELSE ISumTo(s, n - 1) + s[n]
ISum(s) == ISumTo(s, Len(s))

RECURSIVE Pow2(_)
Pow2(n) == IF n = 0 THEN 1 ELSE 2 * Pow2(n - 1)

\* the number of ordered selections of k out of n, n!/(n-k)!
RECURSIVE Binom_ordered(_, _)
Binom_ordered(n, k) ==
    IF k < 0 \/ k > n THEN 0
    ELSE IF k = 0 THEN 1
    ELSE n * Binom_ordered(n - 1, k - 1)

RECURSIVE Binom(_, _)
Binom(n, k) ==
    IF k < 0 \/ k > n THEN 0
    ELSE IF k = 0 \/ k = n THEN 1
    ELSE Binom(n - 1, k - 1) + Binom(n - 1, k)

Zeros(n) == [i \in 1..n |-> 0]
RZeros(n) == [i \in 1..n |-> RZero]
\* zeros where the placeholder of the variance is meant
ROnes_zeros(n) == [i \in 1..n |-> RZero]
ROnes(n) == [i \in 1..n |-> ROne]
RZeroMatrix(r, c) == [i \in 1..r |-> RZeros(c)]


(***************************************************************************)
(* Inputs: target functions, background datasets, instances, options.      *)
(***************************************************************************)
Cols == 1..NumCols

\* the target function on one row: a D-vector of outputs (model.f)
F(model, row) ==
    LET total == ISum(row)
    IN  IF model = "sum" THEN <<R(total)>>
        ELSE <<R(total), R(row[1] * row[2] + row[NumCols])>>

\* DenseData: data matrix, weights summing to 1, groups of columns
DataOne ==
    [data    |-> <<Zeros(NumCols)>>,
     weights |-> <<ROne>>,
     groups  |-> [g \in Cols |-> <<g>>]]

\* two weighted rows; three groups, of two, one and the remaining columns
DataTwo ==
    [data    |-> <<Zeros(NumCols), [c \in Cols |-> IF c = NumCols THEN 1 ELSE 0]>>,
     weights |-> <<Rat(1, 4), Rat(3, 4)>>,
     groups  |-> <<<<1, 2>>, <<3>>, [k \in 1..(NumCols - 3) |-> k + 3]>>]

\* (model, data) pairs an Explainer is constructed from
Configs == {[model |-> "sum", data |-> DataOne], [model |-> "vec", data |-> DataTwo]}

\* the instances explained: column c is c in the columns of one of these sets
\* (the first k columns, the last k columns, the odd columns) and 0 elsewhere
Instances ==
    {1..k : k \in 0..NumCols} \cup {k..NumCols : k \in Cols}
        \cup {{c \in Cols : c % 2 = 1}}
InstanceRow(b) == [c \in Cols |-> IF c \in b THEN c ELSE 0]

\* kwargs of shap_values/explain
\* nsamples: "auto" or an integer
Auto == [auto |-> TRUE, n |-> 0]
Samples(n) == [auto |-> FALSE, n |-> n]
\* the budgets asked of an Explainer: 11 leaves three rows to the random
\* phase of four varying groups after their singletons are enumerated
Budgets(model) ==
    IF model = "sum" THEN {Auto, Samples(1), Samples(2), Samples(11)}
    ELSE {Auto, Samples(1), Samples(2), Samples(3)}
\* l1_reg; "off" stands for False and 0
Regs == {"auto", "off", "num_features(1)"}

\* the identity link (IdentityLink.f)
LinkF(v) == v

(***************************************************************************)
(* KernelExplainer.__init__                                                *)
(***************************************************************************)
\* sum over j of rows[j][dim], the weights left out
WeightedSum_plain(rows, weights, dim) ==
    RSum([j \in 1..Len(rows) |-> rows[j][dim]])

\* sum over j of rows[j][dim] * weights[j]
WeightedSum(rows, weights, dim) ==
    RSum([j \in 1..Len(rows) |-> RMul(rows[j][dim], weights[j])])

OutDim(model) == IF model = "sum" THEN 1 ELSE 2

ExplainerInit(cfg) ==
    LET model_null == [i \in 1..Len(cfg.data.data) |-> F(cfg.model, cfg.data.data[i])]
        D == OutDim(cfg.model)
    IN  [model         |-> cfg.model,
         data          |-> cfg.data,
         weights       |-> cfg.data.weights,
         N             |-> Len(cfg.data.data),
         P             |-> Len(cfg.data.data[1]),
         nsamplesAdded |-> 0,
         nsamplesRun   |-> 0,
         fnull         |-> [d \in 1..D |-> WeightedSum(model_null, cfg.data.weights, d)],
         vector_out    |-> cfg.model # "sum",
         D             |-> D,
         \* attributes that exist only once explain() has assigned them
         varyingInds   |-> <<>>,
         varyingFeatureGroups |-> <<>>,
         M             |-> 0,
         fx            |-> <<>>,
         l1_reg        |-> "unset",
         nsamples      |-> 0,
         max_samples   |-> 0,
         synth_data    |-> <<>>,
         maskMatrix    |-> <<>>,
         kernelWeights |-> <<>>,
         y             |-> <<>>,
         ey            |-> <<>>]

(***************************************************************************)
(* Local variables of one explain() call (its frame).                      *)
(***************************************************************************)
IdleFrame ==
    [pc |-> "idle", exc |-> "none",
     x |-> <<>>, kw_nsamples |-> Auto, kw_l1_reg |-> "auto",
     num_subset_sizes |-> 0, num_paired_subset_sizes |-> 0,
     weight_vector |-> <<>>, remaining_weight_vector |-> <<>>,
     num_full_subsets |-> 0, num_samples_left |-> 0,
     subset_size |-> 0, w |-> RZero, comb |-> 0, mask_len |-> 0,
     nfixed_samples |-> 0, samples_left |-> 0,
     ind_set_len |-> 0, ind_set_pos |-> 0, used_masks |-> {},
     d |-> 0, phi |-> <<>>, phi_var |-> <<>>,
     \* what the call has executed so far
     n_allocate |-> 0, n_addsample |-> 0, n_run |-> 0, n_solve |-> 0,
     n_select |-> 0, n_warn |-> 0, n_inv |-> 0,
     \* nonzero_inds of the last solve(), and the regression that selected them
     nonzero_inds |-> <<>>, selector |-> "none"]

Raise(slf, fr, e) == [self |-> slf, fr |-> [fr EXCEPT !.pc = "raised", !.exc = e]]

(***************************************************************************)
(* KernelExplainer.varying_groups (dense branch)                           *)
(***************************************************************************)
RECURSIVE AscendingFrom(_, _, _)
\* the members of S within lo..hi as an ascending sequence (np.nonzero)
AscendingFrom(S, lo, hi) ==
    IF lo > hi THEN <<>>
    ELSE IF lo \in S THEN <<lo>> \o AscendingFrom(S, lo + 1, hi)
    ELSE AscendingFrom(S, lo + 1, hi)

\* varying_groups that compares no value: every group counts as varying
varying_groups_all(slf, x) ==
    AscendingFrom(1..Len(slf.data.groups), 1, Len(slf.data.groups))

varying_groups(slf, x) ==
    LET groups == slf.data.groups
        varying == {i \in 1..Len(groups) :
                      \E r \in 1..slf.N : \E k \in 1..Len(groups[i]) :
                         x[groups[i][k]] # slf.data.data[r][groups[i][k]]}
    IN  AscendingFrom(varying, 1, Len(groups))

(***************************************************************************)
(* explain(): lines 405-447, up to f(x)                                    *)
(***************************************************************************)
ExplainBegin(slf, fr, inp) ==
    LET vi == varying_groups(slf, inp.x)
    IN  [self |-> [slf EXCEPT !.varyingInds = vi,
                              !.varyingFeatureGroups =
                                  [j \in 1..Len(vi) |-> slf.data.groups[vi[j]]],
                              !.M = Len(vi),
                              !.fx = F(slf.model, inp.x)],
         fr   |-> [IdleFrame EXCEPT !.pc = "branch", !.x = inp.x,
                                    !.kw_nsamples = inp.nsamples,
                                    !.kw_l1_reg = inp.l1_reg]]

\* np.squeeze(phi, axis=1) when the model has a scalar output
Squeeze(slf, phi) ==
    IF slf.vector_out THEN phi ELSE [g \in 1..Len(phi) |-> phi[g][1]]

\* the M == 1 branch with f(x) itself as the effect, the base value forgotten
ExplainDegenerate_fx(slf, fr) ==
    LET G == Len(slf.data.groups)
        zero == RZeroMatrix(G, slf.D)
        diff == [d \in 1..slf.D |-> LinkF(slf.fx[d])]
        phi == IF slf.M = 0 THEN zero
               ELSE [zero EXCEPT ![slf.varyingInds[1]] = diff]
    IN  [self |-> slf,
         fr   |-> [fr EXCEPT !.pc = "done", !.phi = Squeeze(slf, phi),
                             !.phi_var = Squeeze(slf, zero)]]

\* explain(): the branches M == 0 and M == 1, and the return
ExplainDegenerate(slf, fr) ==
    LET G == Len(slf.data.groups)
        zero == RZeroMatrix(G, slf.D)
        diff == [d \in 1..slf.D |-> RSub(LinkF(slf.fx[d]), LinkF(slf.fnull[d]))]
        phi == IF slf.M = 0 THEN zero
               ELSE [zero EXCEPT ![slf.varyingInds[1]] = diff]
    IN  [self |-> slf,
         fr   |-> [fr EXCEPT !.pc = "done", !.phi = Squeeze(slf, phi),
                             !.phi_var = Squeeze(slf, zero)]]

(***************************************************************************)
(* KernelExplainer.allocate and KernelExplainer.addsample                  *)
(***************************************************************************)
\* np.tile(data, (n, 1)): row i of the result is row ((i - 1) % N) + 1 of data
Tile(data, n) == [i \in 1..(n * Len(data)) |-> data[((i - 1) % Len(data)) + 1]]

\* allocate() that leaves the cursor of run() where the last call left it
allocate_keep_run(slf) ==
    [slf EXCEPT !.synth_data    = Tile(slf.data.data, slf.nsamples),
                !.maskMatrix    = [i \in 1..slf.nsamples |-> Zeros(slf.M)],
                !.kernelWeights = RZeros(slf.nsamples),
                !.y             = RZeroMatrix(slf.nsamples * slf.N, slf.D),
                !.ey            = RZeroMatrix(slf.nsamples, slf.D),
                !.nsamplesAdded = 0]

\* allocate() that leaves the cursor of addsample() where the last call left it
allocate_keep_added(slf) ==
    [slf EXCEPT !.synth_data    = Tile(slf.data.data, slf.nsamples),
                !.maskMatrix    = [i \in 1..slf.nsamples |-> Zeros(slf.M)],
                !.kernelWeights = RZeros(slf.nsamples),
                !.y             = RZeroMatrix(slf.nsamples * slf.N, slf.D),
                !.ey            = RZeroMatrix(slf.nsamples, slf.D),
                !.nsamplesRun   = 0]

allocate(slf) ==
    [slf EXCEPT !.synth_data    = Tile(slf.data.data, slf.nsamples),
                !.maskMatrix    = [i \in 1..slf.nsamples |-> Zeros(slf.M)],
                !.kernelWeights = RZeros(slf.nsamples),
                !.y             = RZeroMatrix(slf.nsamples * slf.N, slf.D),
                !.ey            = RZeroMatrix(slf.nsamples, slf.D),
                !.nsamplesAdded = 0,
                !.nsamplesRun   = 0]

\* addsample() that reads the mask from its last column backwards
KnownCols_reversed(slf, m) ==
    {c \in 1..slf.P :
        \E j \in 1..Len(m) : m[Len(m) + 1 - j] = 1 /\
            \E k \in 1..Len(slf.varyingFeatureGroups[j]) :
                slf.varyingFeatureGroups[j][k] = c}

\* the columns of the groups that mask m marks as known
KnownCols(slf, m) ==
    {c \in 1..slf.P :
        \E j \in 1..Len(m) : m[j] = 1 /\
            \E k \in 1..Len(slf.varyingFeatureGroups[j]) :
                slf.varyingFeatureGroups[j][k] = c}

\* the indexing of addsample succeeds: the mask matches the varying groups
\* and the cursor is inside the buffers
AddsampleInRange(slf, m) ==
    /\ Len(m) = slf.M
    /\ Len(m) = Len(slf.varyingFeatureGroups)
    /\ slf.nsamplesAdded < Len(slf.maskMatrix)
    /\ slf.nsamplesAdded < Len(slf.kernelWeights)
    /\ Len(slf.maskMatrix[slf.nsamplesAdded + 1]) = Len(m)

\* addsample() whose slice of the synthetic rows has no upper end
addsample_open(slf, x, m, w) ==
    LET offset == slf.nsamplesAdded * slf.N
        known  == KnownCols(slf, m)
    IN  [slf EXCEPT
            !.synth_data = [i \in 1..Len(slf.synth_data) |->
                              IF i > offset
                              THEN [c \in 1..slf.P |->
                                      IF c \in known THEN x[c] ELSE slf.synth_data[i][c]]
                              ELSE slf.synth_data[i]],
            !.maskMatrix[slf.nsamplesAdded + 1] = m,
            !.kernelWeights[slf.nsamplesAdded + 1] = w,
            !.nsamplesAdded = slf.nsamplesAdded + 1]

addsample(slf, x, m, w) ==
    LET offset == slf.nsamplesAdded * slf.N
        known  == KnownCols(slf, m)
    IN  [slf EXCEPT
            !.synth_data = [i \in 1..Len(slf.synth_data) |->
                              IF i > offset /\ i <= offset + slf.N
                              THEN [c \in 1..slf.P |->
                                      IF c \in known THEN x[c] ELSE slf.synth_data[i][c]]
                              ELSE slf.synth_data[i]],
            !.maskMatrix[slf.nsamplesAdded + 1] = m,
            !.kernelWeights[slf.nsamplesAdded + 1] = w,
            !.nsamplesAdded = slf.nsamplesAdded + 1]

\* the mask unchanged where its complement is meant
Complement_same(m) == m

\* np.abs(mask - 1)
Complement(m) == [j \in 1..Len(m) |-> 1 - m[j]]

(***************************************************************************)
(* explain(): lines 462-498, options, allocate() and the size weights      *)
(***************************************************************************)
\* 2 ** 11 of the "auto" budget
AutoBase == 2048
\* largest M whose coalitions are counted as 2 ** M - 2
EnumerableM == 30

\* weight_vector: (M - 1) / (i * (M - i)), doubled for the paired sizes, normalized
\* the size weights without the division by their sum
SizeWeights_raw(M, num_subset_sizes, num_paired_subset_sizes) ==
    Array([i \in 1..num_subset_sizes |->
              RMul(R(IF i <= num_paired_subset_sizes THEN 2 ELSE 1),
                   Rat(M - 1, i * (M - i)))])

SizeWeights(M, num_subset_sizes, num_paired_subset_sizes) ==
    LET raw == Array([i \in 1..num_subset_sizes |->
                  RMul(R(IF i <= num_paired_subset_sizes THEN 2 ELSE 1),
                       Rat(M - 1, i * (M - i)))])
        total == RSum(raw)
    IN  Array([i \in 1..num_subset_sizes |-> RDiv(raw[i], total)])

ExplainSetup(slf, fr) ==
    LET requested == IF fr.kw_nsamples.auto THEN 2 * slf.M + AutoBase
                     ELSE fr.kw_nsamples.n
        max_samples == IF slf.M <= EnumerableM THEN Pow2(slf.M) - 2
                       ELSE Pow2(EnumerableM)
        nsamples == IF slf.M <= EnumerableM /\ requested > max_samples
                    THEN max_samples ELSE requested
        slf1 == allocate([slf EXCEPT !.l1_reg = fr.kw_l1_reg,
                                     !.nsamples = nsamples,
                                     !.max_samples = max_samples])
        nss  == slf1.M \div 2
        npss == (slf1.M - 1) \div 2
        wv   == SizeWeights(slf1.M, nss, npss)
    IN  [self |-> slf1,
         fr   |-> [fr EXCEPT !.pc = "enum",
                             !.n_allocate = fr.n_allocate + 1,
                             !.num_subset_sizes = nss,
                             !.num_paired_subset_sizes = npss,
                             !.weight_vector = wv,
                             !.remaining_weight_vector = wv,
                             !.num_full_subsets = 0,
                             !.num_samples_left = nsamples,
                             !.mask_len = slf1.M,
                             !.subset_size = 1]]

(***************************************************************************)
(* explain(): lines 499-531, exact enumeration of the small sizes          *)
(***************************************************************************)
\* v >= 1.0 - 1e-8
\* the test of the enumeration against a half in place of 1 - 1e-8
AtLeastOne_half(v) == RLeq(Rat(1, 2), v)

\* the test of the enumeration as v > 1.0
AtLeastOne_strict(v) == RLt(ROne, v)

AtLeastOne(v) ==
    LET r == RSub(v, ROne)
    IN  r[1] >= 0 \/ Abs(r[1]) <= r[2] \div 100000000

RECURSIVE CombinationsFrom(_, _, _)
\* itertools.combinations(lo..n, k), in its lexicographic order
CombinationsFrom(lo, n, k) ==
    IF k = 0 THEN <<<<>>>>
    ELSE IF lo > n THEN <<>>
    ELSE LET with == CombinationsFrom(lo + 1, n, k - 1)
         IN  Array([i \in 1..Len(with) |-> <<lo>> \o with[i]])
             \o CombinationsFrom(lo + 1, n, k)

SeqRange(s) == {s[i] : i \in 1..Len(s)}
MaskOf(inds, n) == [j \in 1..n |-> IF j \in inds THEN 1 ELSE 0]

\* the loop header and the test of one subset size
ExplainEnumTest(slf, fr) ==
    IF fr.subset_size > fr.num_subset_sizes
    THEN [self |-> slf, fr |-> [fr EXCEPT !.pc = "random"]]
    ELSE
    LET k == fr.subset_size
        paired == k <= fr.num_paired_subset_sizes
        nsubsets == Binom(slf.M, k) * (IF paired THEN 2 ELSE 1)
        rw == fr.remaining_weight_vector
        share == RDiv(RMul(R(fr.num_samples_left), rw[k]), R(nsubsets))
        w0 == RDiv(fr.weight_vector[k], R(Binom(slf.M, k)))
    IN  IF AtLeastOne(share)
        THEN [self |-> slf,
              fr |-> [fr EXCEPT
                 !.pc = "enum_add",
                 !.num_full_subsets = fr.num_full_subsets + 1,
                 !.num_samples_left = fr.num_samples_left - nsubsets,
                 !.remaining_weight_vector =
                     IF RLt(rw[k], ROne)
                     THEN [i \in 1..Len(rw) |-> RDiv(rw[i], RSub(ROne, rw[k]))]
                     ELSE rw,
                 !.w = IF paired THEN RDiv(w0, R(2)) ELSE w0,
                 !.comb = 0]]
        ELSE [self |-> slf, fr |-> [fr EXCEPT !.pc = "random"]]

\* one pass of the loop over itertools.combinations: a coalition and, for a
\* paired size, its complement
ExplainEnumAdd(slf, fr) ==
    LET combos == CombinationsFrom(1, fr.mask_len, fr.subset_size)
        mask == MaskOf(SeqRange(combos[fr.comb + 1]), fr.mask_len)
        paired == fr.subset_size <= fr.num_paired_subset_sizes
        last == fr.comb + 1 = Len(combos)
        fr1 == [fr EXCEPT !.comb = fr.comb + 1,
                          !.n_addsample = fr.n_addsample + 1,
                          !.pc = IF last THEN "enum" ELSE "enum_add",
                          !.subset_size = IF last THEN fr.subset_size + 1
                                          ELSE fr.subset_size]
        slf1 == addsample(slf, fr.x, mask, fr.w)
    IN  IF ~AddsampleInRange(slf, mask) THEN Raise(slf, fr, "IndexError")
        ELSE IF ~paired THEN [self |-> slf1, fr |-> fr1]
        ELSE IF ~AddsampleInRange(slf1, Complement(mask))
             THEN Raise(slf1, [fr EXCEPT !.n_addsample = fr.n_addsample + 1],
                        "IndexError")
        ELSE [self |-> addsample(slf1, fr.x, Complement(mask), fr.w),
              fr |-> [fr1 EXCEPT !.n_addsample = fr.n_addsample + 2]]

(***************************************************************************)
(* explain(): lines 534-584, random sampling of the remaining sizes        *)
(***************************************************************************)
\* distinct random coalitions followed per call, and rows left to the random
\* phase, beyond which the model does not follow a call
MaxPrimaries == 3
MaxSamplesLeft == 3

\* remaining_weight_vector of the random phase: the paired sizes halved, the
\* enumerated sizes dropped, normalized
RandomSizeWeights(fr) ==
    LET halved == [i \in 1..Len(fr.weight_vector) |->
                     IF i <= fr.num_paired_subset_sizes
                     THEN RDiv(fr.weight_vector[i], R(2)) ELSE fr.weight_vector[i]]
        rest == SubSeq(halved, fr.num_full_subsets + 1, Len(halved))
        total == RSum(rest)
    IN  [i \in 1..Len(rest) |-> RDiv(rest[i], total)]

\* the pool of sizes drawn for the whole budget, not for what is left of it
ExplainRandomInit_pool(slf, fr) ==
    LET fr1 == [fr EXCEPT !.nfixed_samples = slf.nsamplesAdded,
                          !.samples_left = slf.nsamples - slf.nsamplesAdded]
    IN  IF fr.num_full_subsets = fr.num_subset_sizes
        THEN [self |-> slf, fr |-> [fr1 EXCEPT !.pc = "run"]]
        ELSE IF fr1.samples_left < 0 THEN Raise(slf, fr1, "ValueError")
        ELSE [self |-> slf,
              fr |-> [fr1 EXCEPT !.pc = "draw",
                                 !.remaining_weight_vector = RandomSizeWeights(fr),
                                 !.ind_set_len = 4 * slf.nsamples,
                                 !.ind_set_pos = 0,
                                 !.used_masks = {}]]

ExplainRandomInit(slf, fr) ==
    LET fr1 == [fr EXCEPT !.nfixed_samples = slf.nsamplesAdded,
                          !.samples_left = slf.nsamples - slf.nsamplesAdded]
    IN  IF fr.num_full_subsets = fr.num_subset_sizes
        THEN [self |-> slf, fr |-> [fr1 EXCEPT !.pc = "run"]]
        ELSE IF fr1.samples_left < 0 THEN Raise(slf, fr1, "ValueError")
        ELSE [self |-> slf,
              fr |-> [fr1 EXCEPT !.pc = "draw",
                                 !.remaining_weight_vector = RandomSizeWeights(fr),
                                 !.ind_set_len = 4 * fr1.samples_left,
                                 !.ind_set_pos = 0,
                                 !.used_masks = {}]]

\* the sizes np.random.choice can draw: the indices of positive probability
DrawableInds(fr) ==
    {i \in 0..(Len(fr.remaining_weight_vector) - 1) :
        RLt(RZero, fr.remaining_weight_vector[i + 1])}

\* kernelWeights[i] = 1.0
BumpWeight_assign(slf, i) ==
    [slf EXCEPT !.kernelWeights[i + 1] = ROne]

\* kernelWeights[i] += 1.0
BumpWeight(slf, i) ==
    [slf EXCEPT !.kernelWeights[i + 1] = RAdd(slf.kernelWeights[i + 1], ROne)]

\* a lookup in used_masks that finds nothing
SeenRows_none(fr, mask) == {}

\* the entries of used_masks under the key of a mask
SeenRows(fr, mask) == {u \in fr.used_masks : u.mask = mask}

\* one pass of the while loop, for the drawn size index and coalition
ExplainRandomDraw(slf, fr, inp) ==
    LET subset_size == inp.ind + fr.num_full_subsets + 1
        mask == MaskOf(inp.subset, fr.mask_len)
        paired == subset_size <= fr.num_paired_subset_sizes
        seen == SeenRows(fr, mask)
        new_sample == seen = {}
        row == IF new_sample THEN slf.nsamplesAdded ELSE (CHOOSE u \in seen : TRUE).row
        fr0 == [fr EXCEPT !.ind_set_pos = fr.ind_set_pos + 1,
                          !.subset_size = subset_size]
        \* the primary coalition
        fr1 == IF new_sample
               THEN [fr0 EXCEPT !.used_masks = fr.used_masks \cup
                                     {[mask |-> mask, row |-> slf.nsamplesAdded]},
                                !.samples_left = fr.samples_left - 1,
                                !.n_addsample = fr.n_addsample + 1]
               ELSE fr0
        ok1 == IF new_sample THEN AddsampleInRange(slf, mask)
               ELSE row < Len(slf.kernelWeights)
        slf1 == IF new_sample THEN addsample(slf, fr.x, mask, ROne)
                ELSE BumpWeight(slf, row)
        \* its complement
        both == fr1.samples_left > 0 /\ paired
        fr2 == IF both /\ new_sample
               THEN [fr1 EXCEPT !.samples_left = fr1.samples_left - 1,
                                !.n_addsample = fr1.n_addsample + 1]
               ELSE fr1
        ok2 == IF ~both THEN TRUE
               ELSE IF new_sample THEN AddsampleInRange(slf1, Complement(mask))
               ELSE row + 1 < Len(slf1.kernelWeights)
        slf2 == IF ~both THEN slf1
                ELSE IF new_sample THEN addsample(slf1, fr.x, Complement(mask), ROne)
                ELSE BumpWeight(slf1, row + 1)
    IN  IF \E j \in inp.subset : j > fr.mask_len THEN Raise(slf, fr0, "IndexError")
        ELSE IF ~ok1 THEN Raise(slf, fr0, "IndexError")
        ELSE IF ~ok2 THEN Raise(slf1, fr1, "IndexError")
        ELSE [self |-> slf2, fr |-> fr2]

\* the end of the while loop and the renormalization of the random rows
ExplainRandomFinish(slf, fr) ==
    LET kw == slf.kernelWeights
        weight_left == RSum(SubSeq(fr.weight_vector, fr.num_full_subsets + 1,
                                   Len(fr.weight_vector)))
        total == RSum(SubSeq(kw, fr.nfixed_samples + 1, Len(kw)))
    IN  IF fr.nfixed_samples >= Len(kw)
        \* no row is left to the random phase: the slice is empty, and the
        \* division by its sum 0 changes nothing
        THEN [self |-> slf, fr |-> [fr EXCEPT !.pc = "run"]]
        ELSE IF total = RZero
        \* a division by zero: the weights become nan and no solve succeeds
        THEN Raise(slf, fr, "FloatingPointError")
        ELSE [self |-> [slf EXCEPT !.kernelWeights =
                          [i \in 1..Len(kw) |->
                              IF i > fr.nfixed_samples
                              THEN RMul(kw[i], RDiv(weight_left, total))
                              ELSE kw[i]]],
              fr |-> [fr EXCEPT !.pc = "run"]]

(***************************************************************************)
(* KernelExplainer.run                                                     *)
(***************************************************************************)
RunInRange(slf) ==
    /\ slf.nsamplesRun <= slf.nsamplesAdded
    /\ slf.nsamplesAdded * slf.N <= Len(slf.synth_data)
    /\ slf.nsamplesAdded * slf.N <= Len(slf.y)
    /\ slf.nsamplesAdded <= Len(slf.ey)

\* run() that stops one slot short of nsamplesAdded
run_short(slf) ==
    LET lo == slf.nsamplesRun * slf.N
        hi == (slf.nsamplesAdded - 1) * slf.N
        modelOut == [i \in (lo + 1)..hi |-> F(slf.model, slf.synth_data[i])]
        y1 == Array([i \in 1..Len(slf.y) |->
                 IF i > lo /\ i <= hi THEN modelOut[i] ELSE slf.y[i]])
    IN  [slf EXCEPT
            !.y = y1,
            !.ey = [i \in 1..Len(slf.ey) |->
                      IF i > slf.nsamplesRun /\ i <= slf.nsamplesAdded - 1
                      THEN [d \in 1..slf.D |->
                              WeightedSum(SubSeq(y1, (i - 1) * slf.N + 1, i * slf.N),
                                          slf.weights, d)]
                      ELSE slf.ey[i]],
            !.nsamplesRun = slf.nsamplesAdded - 1]

run(slf) ==
    LET lo == slf.nsamplesRun * slf.N
        hi == slf.nsamplesAdded * slf.N
        \* one invocation of the target function on rows lo..hi-1
        modelOut == [i \in (lo + 1)..hi |-> F(slf.model, slf.synth_data[i])]
        y1 == Array([i \in 1..Len(slf.y) |->
                 IF i > lo /\ i <= hi THEN modelOut[i] ELSE slf.y[i]])
    IN  [slf EXCEPT
            !.y = y1,
            !.ey = [i \in 1..Len(slf.ey) |->
                      IF i > slf.nsamplesRun /\ i <= slf.nsamplesAdded
                      THEN [d \in 1..slf.D |->
                              WeightedSum(SubSeq(y1, (i - 1) * slf.N + 1, i * slf.N),
                                          slf.weights, d)]
                      ELSE slf.ey[i]],
            !.nsamplesRun = slf.nsamplesAdded]

\* explain(): lines 586-591
ExplainRun(slf, fr) ==
    IF ~RunInRange(slf) THEN Raise(slf, fr, "ValueError")
    ELSE [self |-> run(slf),
          fr |-> [fr EXCEPT !.pc = "solve", !.n_run = fr.n_run + 1, !.d = 0,
                            !.phi = RZeroMatrix(Len(slf.data.groups), slf.D),
                            !.phi_var = RZeroMatrix(Len(slf.data.groups), slf.D)]]

(***************************************************************************)
(* KernelExplainer.solve                                                   *)
(***************************************************************************)
\* the matrix without row i and column j
Minor(A, i, j) ==
    Array([r \in 1..(Len(A) - 1) |->
        Array([c \in 1..(Len(A) - 1) |->
            A[IF r < i THEN r ELSE r + 1][IF c < j THEN c ELSE c + 1]])])

RECURSIVE Det(_)
Det(A) ==
    IF Len(A) = 0 THEN ROne
    ELSE IF Len(A) = 1 THEN A[1][1]
    ELSE RSum([j \in 1..Len(A) |->
                 RMul(IF j % 2 = 1 THEN A[1][j] ELSE RNeg(A[1][j]),
                      Det(Minor(A, 1, j)))])

\* np.linalg.inv of a matrix of determinant det # 0
Inverse(A, det) ==
    Array([i \in 1..Len(A) |->
        Array([j \in 1..Len(A) |->
            RDiv(IF (i + j) % 2 = 0 THEN Det(Minor(A, j, i))
                 ELSE RNeg(Det(Minor(A, j, i))), det)])])

\* abs(v) < 1e-10
BelowRounding(v) == v[1] = 0 \/ Abs(v[1]) <= ((v[2] - 1) \div 100000) \div 100000

\* the feature selection runs: l1_reg not in ["auto", False, 0], or
\* fraction_evaluated < 0.2 under "auto"
\* the test of line 745 without the share of the coalitions evaluated
SelectionRuns_unless_off(slf) == slf.l1_reg # "off"

SelectionRuns(slf) ==
    \/ slf.l1_reg \notin {"auto", "off"}
    \/ (slf.l1_reg = "auto" /\ 5 * slf.nsamples < slf.max_samples)

\* the regression that selects the features: lars_path, LassoLarsIC with a
\* criterion ("auto" takes "aic"), or Lasso
Selector(slf) ==
    IF slf.l1_reg = "num_features(1)" THEN "lars_path"
    ELSE IF slf.l1_reg \in {"auto", "bic", "aic"}
    THEN (IF slf.l1_reg = "auto" THEN "aic" ELSE slf.l1_reg)
    ELSE "Lasso"

\* the sequences of distinct indices of 1..M of length at most r
RECURSIVE DistinctSeqs(_, _)
DistinctSeqs(M, r) ==
    IF r = 0 THEN {<<>>}
    ELSE LET shorter == DistinctSeqs(M, r - 1)
         IN  shorter \cup
             UNION {{Append(q, j) : j \in (1..M) \ SeqRange(q)} :
                       q \in {p \in shorter : Len(p) = r - 1}}

\* what the sparse regression of sklearn can hand back as nonzero_inds:
\* lars_path gives the active features in their order of entry, at most
\* max_iter of them; the Lasso fits give the ascending nonzero coefficients
SelectionOutcomes(slf) ==
    IF slf.l1_reg = "num_features(1)"
    THEN DistinctSeqs(slf.M, 1)
    ELSE {AscendingFrom(S, 1, slf.M) : S \in SUBSET (1..slf.M)}

\* np.arange one short of self.M
AllInds_short(slf) == [j \in 1..(slf.M - 1) |-> j]

\* nonzero_inds = np.arange(self.M)
AllInds(slf) == [j \in 1..slf.M |-> j]

SolveInRange(slf, dim, nonzero_inds) ==
    /\ Len(slf.ey) = Len(slf.maskMatrix)
    /\ Len(slf.kernelWeights) = Len(slf.maskMatrix)
    /\ dim <= Len(slf.fnull) /\ dim <= Len(slf.fx)
    /\ \A i \in 1..Len(slf.maskMatrix) :
          \A j \in 1..Len(nonzero_inds) : nonzero_inds[j] <= Len(slf.maskMatrix[i])

\* np.dot(np.transpose(tmp), etmp) of solve(), for the features nonzero_inds
NormalMatrix(slf, nonzero_inds) ==
    LET n == Len(slf.maskMatrix)
        k == Len(nonzero_inds)
        last == nonzero_inds[k]
        etmp == Array([i \in 1..n |-> Array([j \in 1..(k - 1) |->
                    slf.maskMatrix[i][nonzero_inds[j]] - slf.maskMatrix[i][last]])])
    IN  Array([a \in 1..(k - 1) |-> Array([b \in 1..(k - 1) |->
            RSum([i \in 1..n |->
                RMul(RMul(R(etmp[i][a]), slf.kernelWeights[i]), R(etmp[i][b]))])])])

\* solve() that answers a singular matrix with zeros in place of the error
solve_masked(slf, dim, nonzero_inds) ==
    LET n == Len(slf.maskMatrix)
        k == Len(nonzero_inds)
        diff == RSub(LinkF(slf.fx[dim]), LinkF(slf.fnull[dim]))
        eyAdj == Array([i \in 1..n |->
                     RSub(LinkF(slf.ey[i][dim]), LinkF(slf.fnull[dim]))])
    IN  IF k = 0
        THEN [raised |-> FALSE, phi |-> RZeros(slf.M), phi_var |-> ROnes(slf.M),
              inv |-> FALSE]
        ELSE
        LET last == nonzero_inds[k]
            eyAdj2 == Array([i \in 1..n |->
                         RSub(eyAdj[i], RMul(R(slf.maskMatrix[i][last]), diff))])
            etmp == Array([i \in 1..n |-> Array([j \in 1..(k - 1) |->
                        slf.maskMatrix[i][nonzero_inds[j]] - slf.maskMatrix[i][last]])])
            tmp == Array([i \in 1..n |-> Array([j \in 1..(k - 1) |->
                        RMul(R(etmp[i][j]), slf.kernelWeights[i])])])
            \* np.dot(np.transpose(tmp), etmp)
            normal == Array([a \in 1..(k - 1) |-> Array([b \in 1..(k - 1) |->
                         RSum([i \in 1..n |-> RMul(tmp[i][a], R(etmp[i][b]))])])])
            det == Det(normal)
            tmp2 == Inverse(normal, det)
            rhs == Array([a \in 1..(k - 1) |->
                      RSum([i \in 1..n |-> RMul(tmp[i][a], eyAdj2[i])])])
            w == Array([a \in 1..(k - 1) |->
                    RSum([b \in 1..(k - 1) |-> RMul(tmp2[a][b], rhs[b])])])
            phi == Array([g \in 1..slf.M |->
                      IF g = last THEN RSub(diff, RSum(w))
                      ELSE IF \E a \in 1..(k - 1) : nonzero_inds[a] = g
                      THEN w[CHOOSE a \in 1..(k - 1) : nonzero_inds[a] = g]
                      ELSE RZero])
        IN  IF det = RZero
            THEN [raised |-> FALSE, phi |-> RZeros(slf.M), phi_var |-> ROnes(slf.M),
                  inv |-> TRUE]
            ELSE [raised |-> FALSE, inv |-> TRUE,
                  phi |-> [g \in 1..slf.M |->
                             IF BelowRounding(phi[g]) THEN RZero ELSE phi[g]],
                  phi_var |-> ROnes(slf.M)]

\* the value of solve: [raised, phi, phi_var, inv]; raised is the LinAlgError
\* of np.linalg.inv on a singular matrix, inv tells that np.linalg.inv was
\* called
solve(slf, dim, nonzero_inds) ==
    LET n == Len(slf.maskMatrix)
        k == Len(nonzero_inds)
        diff == RSub(LinkF(slf.fx[dim]), LinkF(slf.fnull[dim]))
        eyAdj == Array([i \in 1..n |->
                     RSub(LinkF(slf.ey[i][dim]), LinkF(slf.fnull[dim]))])
    IN  IF k = 0
        THEN [raised |-> FALSE, phi |-> RZeros(slf.M), phi_var |-> ROnes(slf.M),
              inv |-> FALSE]
        ELSE
        LET last == nonzero_inds[k]
            eyAdj2 == Array([i \in 1..n |->
                         RSub(eyAdj[i], RMul(R(slf.maskMatrix[i][last]), diff))])
            etmp == Array([i \in 1..n |-> Array([j \in 1..(k - 1) |->
                        slf.maskMatrix[i][nonzero_inds[j]] - slf.maskMatrix[i][last]])])
            tmp == Array([i \in 1..n |-> Array([j \in 1..(k - 1) |->
                        RMul(R(etmp[i][j]), slf.kernelWeights[i])])])
            \* np.dot(np.transpose(tmp), etmp)
            normal == Array([a \in 1..(k - 1) |-> Array([b \in 1..(k - 1) |->
                         RSum([i \in 1..n |-> RMul(tmp[i][a], R(etmp[i][b]))])])])
            det == Det(normal)
            tmp2 == Inverse(normal, det)
            rhs == Array([a \in 1..(k - 1) |->
                      RSum([i \in 1..n |-> RMul(tmp[i][a], eyAdj2[i])])])
            w == Array([a \in 1..(k - 1) |->
                    RSum([b \in 1..(k - 1) |-> RMul(tmp2[a][b], rhs[b])])])
            phi == Array([g \in 1..slf.M |->
                      IF g = last THEN RSub(diff, RSum(w))
                      ELSE IF \E a \in 1..(k - 1) : nonzero_inds[a] = g
                      THEN w[CHOOSE a \in 1..(k - 1) : nonzero_inds[a] = g]
                      ELSE RZero])
        IN  IF det = RZero
            THEN [raised |-> TRUE, phi |-> <<>>, phi_var |-> <<>>, inv |-> TRUE]
            ELSE [raised |-> FALSE, inv |-> TRUE,
                  phi |-> [g \in 1..slf.M |->
                             IF BelowRounding(phi[g]) THEN RZero ELSE phi[g]],
                  phi_var |-> ROnes(slf.M)]

\* explain(): lines 592-601, one pass of the loop over the output dimensions
\* and, after the last one, the return
ExplainSolve(slf, fr, inp) ==
    LET dim == fr.d + 1
        nonzero_inds == IF SelectionRuns(slf) THEN inp.sel ELSE AllInds(slf)
        fr0 == [fr EXCEPT !.n_solve = fr.n_solve + 1,
                          !.n_warn = fr.n_warn + (IF slf.l1_reg = "auto" THEN 1 ELSE 0),
                          !.n_select = fr.n_select + (IF SelectionRuns(slf) THEN 1 ELSE 0),
                          !.nonzero_inds = nonzero_inds,
                          !.selector = IF SelectionRuns(slf) THEN Selector(slf)
                                       ELSE fr.selector]
    IN  IF ~SolveInRange(slf, dim, nonzero_inds) THEN Raise(slf, fr0, "IndexError")
        ELSE
        LET res == solve(slf, dim, nonzero_inds)
            fr1 == [fr0 EXCEPT !.n_inv = fr.n_inv + (IF res.inv THEN 1 ELSE 0)]
            place(mat, v) ==
                [g \in 1..Len(mat) |->
                    IF \E j \in 1..Len(slf.varyingInds) : slf.varyingInds[j] = g
                    THEN [mat[g] EXCEPT ![dim] =
                            v[CHOOSE j \in 1..Len(slf.varyingInds) :
                                 slf.varyingInds[j] = g]]
                    ELSE mat[g]]
            phi == place(fr.phi, res.phi)
            phi_var == place(fr.phi_var, res.phi_var)
            last == dim = slf.D
        IN  IF res.raised THEN Raise(slf, fr1, "LinAlgError")
            ELSE IF Len(res.phi) # Len(slf.varyingInds) \/ dim > slf.D
            THEN Raise(slf, fr1, "ValueError")
            ELSE [self |-> slf,
                  fr |-> [fr1 EXCEPT !.d = dim,
                                     !.pc = IF last THEN "done" ELSE "solve",
                                     !.phi = IF last THEN Squeeze(slf, phi) ELSE phi,
                                     !.phi_var = IF last THEN Squeeze(slf, phi_var)
                                                 ELSE phi_var]]

(***************************************************************************)
(* The state: one Explainer, the frames of the explain() calls in          *)
(* progress on it (one per thread), and for each call the same call made   *)
(* alone on an Explainer constructed afresh, stepped with the same draws.  *)
(***************************************************************************)
VARIABLES self, frames, alone, ncalls, overlap, api

vars == <<self, frames, alone, ncalls, overlap, api>>

Threads == {1, 2}

ConfigOf(slf) == [model |-> slf.model, data |-> slf.data]

\* the constructor has returned for a DenseData background; shap_values() was
\* not called
Constructed ==
    [pc |-> "ready", kind |-> "DenseData", transposed |-> FALSE, n_null |-> 1,
     type |-> "none", ndim |-> 0, rows |-> <<>>, nsamples |-> Auto,
     n_explained |-> 0]
Fresh(slf) == [self |-> ExplainerInit(ConfigOf(slf)), fr |-> IdleFrame]

Init ==
    /\ \E cfg \in Configs : self = ExplainerInit(cfg)
    /\ frames = [t \in Threads |-> IdleFrame]
    /\ alone = [t \in Threads |-> Fresh(self)]
    /\ ncalls = 0
    /\ overlap = [t \in Threads |-> FALSE]
    /\ api = Constructed

InProgress(fr) == fr.pc \notin {"idle", "done", "raised"}

\* a step of thread t falls inside every call in progress on another thread
Overlapped(t) ==
    [u \in Threads |-> overlap[u] \/ (u # t /\ InProgress(frames[u]))]

\* the fields of the Explainer that the loops of explain() test
Control(slf) ==
    <<slf.M, slf.nsamples, slf.max_samples, slf.nsamplesAdded, slf.nsamplesRun,
      slf.l1_reg>>

\* the call made alone is at the step thread t is about to take
AloneAt(t) == alone[t].fr = frames[t] /\ Control(alone[t].self) = Control(self)

\* thread t takes the step with result r; the call made alone takes the same
\* step (result ra) when it is at that step (ok)
Step(t, r, ra, ok) ==
    /\ self' = r.self
    /\ frames' = [frames EXCEPT ![t] = r.fr]
    /\ alone' = [alone EXCEPT ![t] =
                    IF ~ok THEN @
                    ELSE IF alone[t].self = self THEN r
                    ELSE ra]
    /\ overlap' = Overlapped(t)
    /\ UNCHANGED <<ncalls, api>>

CallInputs(xs, budgets, regs) ==
    {[x |-> InstanceRow(b), nsamples |-> n, l1_reg |-> l] :
        b \in xs, n \in budgets, l \in regs}

BeginWith(t, inputs) ==
    /\ frames[t].pc = "idle"
    /\ \E inp \in inputs :
          LET r == ExplainBegin(self, IdleFrame, inp)
          IN  /\ self' = r.self
              /\ frames' = [frames EXCEPT ![t] = r.fr]
              /\ alone' = [alone EXCEPT ![t] =
                              ExplainBegin(Fresh(self).self, IdleFrame, inp)]
    /\ overlap' = [Overlapped(t) EXCEPT ![t] = FALSE]
    /\ ncalls' = ncalls + 1
    /\ UNCHANGED api

\* one explain() call on a newly constructed Explainer
Begin(t) ==
    /\ ncalls = 0
    /\ BeginWith(t, CallInputs(Instances, Budgets(self.model), Regs))

Degenerate(t) ==
    /\ frames[t].pc = "branch"
    /\ self.M <= 1
    /\ Step(t, ExplainDegenerate(self, frames[t]),
               ExplainDegenerate(alone[t].self, alone[t].fr),
               alone[t].fr = frames[t] /\ alone[t].self.M <= 1)

Setup(t) ==
    /\ frames[t].pc = "branch"
    /\ self.M >= 2
    /\ Step(t, ExplainSetup(self, frames[t]),
               ExplainSetup(alone[t].self, alone[t].fr),
               alone[t].fr = frames[t] /\ alone[t].self.M >= 2)

EnumTest(t) ==
    /\ frames[t].pc = "enum"
    /\ Step(t, ExplainEnumTest(self, frames[t]),
               ExplainEnumTest(alone[t].self, alone[t].fr), AloneAt(t))

EnumAdd(t) ==
    /\ frames[t].pc = "enum_add"
    /\ Step(t, ExplainEnumAdd(self, frames[t]),
               ExplainEnumAdd(alone[t].self, alone[t].fr), AloneAt(t))

RandomInit(t) ==
    /\ frames[t].pc = "random"
    /\ \/ frames[t].num_full_subsets = frames[t].num_subset_sizes
       \/ self.nsamples - self.nsamplesAdded <= MaxSamplesLeft
    /\ Step(t, ExplainRandomInit(self, frames[t]),
               ExplainRandomInit(alone[t].self, alone[t].fr), AloneAt(t))

Min(a, b) == IF a < b THEN a ELSE b

\* np.random.permutation(self.M)[:subset_size] as a set; the permutations
\* followed are the rotations, so the set is subset_size groups in a row,
\* cyclically
DrawableSubsets(slf, fr, ind) ==
    LET k == Min(ind + fr.num_full_subsets + 1, slf.M)
    IN  {{((start + i) % slf.M) + 1 : i \in 0..(k - 1)} : start \in 0..(slf.M - 1)}

RandomDraw(t) ==
    /\ frames[t].pc = "draw"
    /\ frames[t].samples_left > 0
    /\ frames[t].ind_set_pos < frames[t].ind_set_len
    /\ \E ind \in DrawableInds(frames[t]) :
       \E subset \in DrawableSubsets(self, frames[t], ind) :
          LET inp == [ind |-> ind, subset |-> subset]
          IN  /\ \/ SeenRows(frames[t], MaskOf(subset, frames[t].mask_len)) # {}
                 \/ Cardinality(frames[t].used_masks) < MaxPrimaries
              /\ Step(t, ExplainRandomDraw(self, frames[t], inp),
                         ExplainRandomDraw(alone[t].self, alone[t].fr, inp),
                         AloneAt(t))

RandomFinish(t) ==
    /\ frames[t].pc = "draw"
    /\ ~(frames[t].samples_left > 0 /\ frames[t].ind_set_pos < frames[t].ind_set_len)
    /\ Step(t, ExplainRandomFinish(self, frames[t]),
               ExplainRandomFinish(alone[t].self, alone[t].fr), AloneAt(t))

Run(t) ==
    /\ frames[t].pc = "run"
    /\ Step(t, ExplainRun(self, frames[t]),
               ExplainRun(alone[t].self, alone[t].fr), AloneAt(t))

Solve(t) ==
    /\ frames[t].pc = "solve"
    /\ \E sel \in (IF SelectionRuns(self) THEN SelectionOutcomes(self) ELSE {<<>>}) :
          LET inp == [sel |-> sel]
          IN  Step(t, ExplainSolve(self, frames[t], inp),
                      ExplainSolve(alone[t].self, alone[t].fr, inp), AloneAt(t))

Next ==
    \E t \in {1} :
        \/ Begin(t)
        \/ Degenerate(t)
        \/ Setup(t)
        \/ EnumTest(t)
        \/ EnumAdd(t)
        \/ RandomInit(t)
        \/ RandomDraw(t)
        \/ RandomFinish(t)
        \/ Run(t)
        \/ Solve(t)

Spec == Init /\ [][Next]_vars

(***************************************************************************)
(* Calls made one after another on the same Explainer (SpecSeq), and two   *)
(* threads each making one call on the same Explainer, their steps         *)
(* interleaved (SpecConc).                                                 *)
(***************************************************************************)
\* the calls made one after another
SeqInputs == CallInputs({{}, {1}, {1, 2}, {1, 2, 3}}, {Auto, Samples(1)}, {"auto"})

\* explain() returns or raises; the frame is gone
Return(t) ==
    /\ frames[t].pc \in {"done", "raised"}
    /\ frames' = [frames EXCEPT ![t] = IdleFrame]
    /\ alone' = [alone EXCEPT ![t] = Fresh(self)]
    /\ UNCHANGED <<self, ncalls, overlap, api>>

BeginSeq(t) ==
    /\ ncalls < MaxCalls
    /\ BeginWith(t, SeqInputs)

NextSeq ==
    \E t \in {1} :
        \/ BeginSeq(t)
        \/ Degenerate(t)
        \/ Setup(t)
        \/ EnumTest(t)
        \/ EnumAdd(t)
        \/ RandomInit(t)
        \/ RandomDraw(t)
        \/ RandomFinish(t)
        \/ Run(t)
        \/ Solve(t)
        \/ Return(t)

SpecSeq == Init /\ [][NextSeq]_vars

\* the calls the two threads make
ConcInputs ==
    CallInputs({{1}, {2}}, {Auto}, {"off"})
        \cup CallInputs({{1, 2}, {2, 3}}, {Auto, Samples(1)}, {"off"})

\* the Explainer the threads share is built on the one-row background
InitConc == Init /\ self.model = "sum"

BeginConc(t) ==
    /\ ncalls < Cardinality(Threads)
    /\ BeginWith(t, ConcInputs)

NextConc ==
    \E t \in Threads :
        \/ BeginConc(t)
        \/ Degenerate(t)
        \/ Setup(t)
        \/ EnumTest(t)
        \/ EnumAdd(t)
        \/ RandomInit(t)
        \/ RandomDraw(t)
        \/ RandomFinish(t)
        \/ Run(t)
        \/ Solve(t)

SpecConc == InitConc /\ [][NextConc]_vars

(***************************************************************************)
(* One call on the Explainer of f(x) = x0 + x1 + x2 with the background    *)
(* row [0, 0, 0], for instances of three non-zero integers (SpecScenario). *)
(***************************************************************************)
ScenarioConfig ==
    [model |-> "sum",
     data  |-> [data    |-> <<<<0, 0, 0>>>>,
                weights |-> <<ROne>>,
                groups  |-> <<<<1>>, <<2>>, <<3>>>>]]

\* the components of the instances
ScenarioValues == {-2, 1, 2, 3}

\* the default budget and the budget it is capped to; the default l1_reg, and
\* l1_reg off
ScenarioInputs ==
    {[x |-> <<a, b, c>>, nsamples |-> n, l1_reg |-> l] :
        a \in ScenarioValues, b \in ScenarioValues, c \in ScenarioValues,
        n \in {Auto, Samples(6)}, l \in {"auto", "off"}}

InitScenario ==
    /\ self = ExplainerInit(ScenarioConfig)
    /\ frames = [t \in Threads |-> IdleFrame]
    /\ alone = [t \in Threads |-> Fresh(self)]
    /\ ncalls = 0
    /\ overlap = [t \in Threads |-> FALSE]
    /\ api = Constructed

BeginScenario(t) ==
    /\ ncalls = 0
    /\ BeginWith(t, ScenarioInputs)

\* the steps such a call takes
NextScenario ==
    \E t \in {1} :
        \/ BeginScenario(t)
        \/ Setup(t)
        \/ EnumTest(t)
        \/ EnumAdd(t)
        \/ RandomInit(t)
        \/ Run(t)
        \/ Solve(t)

SpecScenario == InitScenario /\ [][NextScenario]_vars

(***************************************************************************)
(* The constructor and shap_values(), with the checks they make.           *)
(***************************************************************************)
\* the rows of one X
MaxRows == 2

\* the Data objects an Explainer is constructed from: the classes of the
\* background and its transposed flag
DataKinds == {"DenseData", "SparseData", "Data"}

\* the instances in the rows of X
ApiRows == {{}, {1, 2}, {1, 2, 3}}

\* X of shap_values(): its type, the length of its shape and its rows
ApiInputs ==
    {[type |-> "list", ndim |-> 1, rows |-> <<>>]}
      \cup {[type |-> "ndarray", ndim |-> n, rows |-> <<>>] : n \in {0, 3, 4}}
      \cup {[type |-> "ndarray", ndim |-> 1, rows |-> <<b>>] : b \in ApiRows}
      \cup {[type |-> ty, ndim |-> 2, rows |-> rs] :
              ty \in {"ndarray", "lil_matrix"},
              rs \in UNION {[1..n -> ApiRows] : n \in 1..MaxRows}}

\* __init__ is entered with a model and a Data object, held in self from the
\* start; the class of the Data object and its transposed flag are in api
InitApi ==
    /\ \E cfg \in Configs : self = cfg
    /\ \E k \in DataKinds : \E tr \in BOOLEAN :
          api = [Constructed EXCEPT !.pc = "new", !.kind = k, !.transposed = tr,
                                    !.n_null = 0]
    /\ frames = [t \in Threads |-> IdleFrame]
    /\ alone = [t \in Threads |-> [self |-> self, fr |-> IdleFrame]]
    /\ ncalls = 0
    /\ overlap = [t \in Threads |-> FALSE]

\* lines 182-183: convert_to_data hands a Data object on as it is
ConvertData ==
    /\ api.pc = "new"
    /\ api' = [api EXCEPT !.pc = "converted"]
    /\ UNCHANGED <<self, frames, alone, ncalls, overlap>>

\* lines 184-185: the output of the target function for all the background
\* data
MatchModelToData ==
    /\ api.pc = "converted"
    /\ api' = [api EXCEPT !.pc = "matched", !.n_null = api.n_null + 1]
    /\ UNCHANGED <<self, frames, alone, ncalls, overlap>>

\* lines 192-194: the two assertions on self.data
DataSupported == api.kind \in {"DenseData", "SparseData"} /\ ~api.transposed

\* lines 186-223: the assertions, then N, P, the cursors, fnull and D
FinishInit ==
    /\ api.pc = "matched"
    /\ IF DataSupported
       THEN /\ self' = ExplainerInit(self)
            /\ alone' = [t \in Threads |-> Fresh(self)]
            /\ api' = [api EXCEPT !.pc = "ready"]
       ELSE /\ api' = [api EXCEPT !.pc = "raised"]
            /\ UNCHANGED <<self, alone>>
    /\ UNCHANGED <<frames, ncalls, overlap>>

\* lines 272-273: the two assertions on X
InstanceSupported(X) ==
    /\ X.type \in {"ndarray", "lil_matrix"}
    /\ X.ndim \in {1, 2, 3}

\* shap_values(), lines 257-273: the conversions of X and the assertions
ShapValues ==
    /\ api.pc = "ready"
    /\ \E X \in ApiInputs : \E n \in {Auto, Samples(1)} :
          api' = IF InstanceSupported(X)
                 THEN [api EXCEPT !.pc = "dispatch", !.type = X.type,
                                  !.ndim = X.ndim, !.rows = X.rows,
                                  !.nsamples = n]
                 ELSE [api EXCEPT !.pc = "rejected", !.type = X.type,
                                  !.ndim = X.ndim]
    /\ UNCHANGED <<self, frames, alone, ncalls, overlap>>

\* lines 358-363 and 378-385: explain() of the next row of X, entered
ExplainRow(t) ==
    /\ api.pc = "dispatch"
    /\ api.rows # <<>>
    /\ frames[t].pc = "idle"
    /\ LET inp == [x |-> InstanceRow(Head(api.rows)), nsamples |-> api.nsamples,
                   l1_reg |-> "off"]
           r == ExplainBegin(self, IdleFrame, inp)
       IN  /\ self' = r.self
           /\ frames' = [frames EXCEPT ![t] = r.fr]
           /\ alone' = [alone EXCEPT ![t] =
                           ExplainBegin(Fresh(self).self, IdleFrame, inp)]
    /\ api' = [api EXCEPT !.rows = Tail(api.rows)]
    /\ overlap' = [Overlapped(t) EXCEPT ![t] = FALSE]
    /\ ncalls' = ncalls + 1

\* explain() has returned: its phi joins the explanations
RowExplained(t) ==
    /\ api.pc = "dispatch"
    /\ frames[t].pc = "done"
    /\ frames' = [frames EXCEPT ![t] = IdleFrame]
    /\ alone' = [alone EXCEPT ![t] = Fresh(self)]
    /\ api' = [api EXCEPT !.n_explained = api.n_explained + 1]
    /\ UNCHANGED <<self, ncalls, overlap>>

\* explain() has raised: the error leaves shap_values()
RowRaised(t) ==
    /\ api.pc = "dispatch"
    /\ frames[t].pc = "raised"
    /\ frames' = [frames EXCEPT ![t] = IdleFrame]
    /\ alone' = [alone EXCEPT ![t] = Fresh(self)]
    /\ api' = [api EXCEPT !.pc = "failed"]
    /\ UNCHANGED <<self, ncalls, overlap>>

\* lines 365-376 and 387-400: the explanations are returned; with three axes
\* and no isRNN no branch is taken and None is returned
ShapReturn(t) ==
    /\ api.pc = "dispatch"
    /\ api.rows = <<>>
    /\ frames[t].pc = "idle"
    /\ api' = [api EXCEPT !.pc = "returned"]
    /\ UNCHANGED <<self, frames, alone, ncalls, overlap>>

NextApi ==
    \/ ConvertData
    \/ MatchModelToData
    \/ FinishInit
    \/ ShapValues
    \/ \E t \in {1} :
        \/ ExplainRow(t)
        \/ Degenerate(t)
        \/ Setup(t)
        \/ EnumTest(t)
        \/ EnumAdd(t)
        \/ RandomInit(t)
        \/ RandomDraw(t)
        \/ RandomFinish(t)
        \/ Run(t)
        \/ Solve(t)
        \/ RowExplained(t)
        \/ RowRaised(t)
        \/ ShapReturn(t)

SpecApi == InitApi /\ [][NextApi]_vars

(***************************************************************************)
(* Properties of one explain() call on a new Explainer (Spec).             *)
(***************************************************************************)
Fr == frames[1]

\* the call has passed allocate()
Sampling ==
    /\ Fr.pc \in {"enum", "enum_add", "random", "draw", "run", "solve", "done", "raised"}
    /\ Fr.n_allocate = 1
\* the two sampling phases of the call are over
Sampled == Fr.pc \in {"run", "solve", "done"} /\ Fr.n_allocate = 1

PhiAt(g, d) == IF self.vector_out THEN Fr.phi[g][d] ELSE Fr.phi[g]
TotalDiff(d) == RSub(LinkF(self.fx[d]), LinkF(self.fnull[d]))
NumGroups == Len(self.data.groups)
RowSize(i) == ISum(self.maskMatrix[i])
\* the rows the exact enumeration has added
EnumRows == IF Fr.pc \in {"enum", "enum_add", "random"} THEN self.nsamplesAdded
            ELSE Fr.nfixed_samples
WeightOfRows(lo, hi) == RSum(SubSeq(self.kernelWeights, lo, hi))
WeightOfSizes(lo, hi) == RSum(SubSeq(Fr.weight_vector, lo, hi))

\* the instance equals every background row in every column
NoGroupVaries ==
    \A r \in 1..self.N : \A c \in 1..self.P : Fr.x[c] = self.data.data[r][c]

\* C1: when explain() has run its solves (M >= 2), for every output
\* dimension d the phi of all feature groups sum to link(fx[d]) - link(fnull[d]),
\* whatever the feature selection returned
C1_SumToTotal ==
    (Fr.pc = "done" /\ Fr.n_solve > 0) =>
        \A d \in 1..self.D :
            RSum([g \in 1..NumGroups |-> PhiAt(g, d)]) = TotalDiff(d)

\* C2: a call with no varying group (M = 0: the instance equals every
\* background row) returns phi = 0 for every group and output dimension and
\* executes no allocate, addsample, run or solve
C2_ZeroVarying ==
    (Fr.pc # "idle" /\ (self.M = 0 \/ NoGroupVaries)) =>
        /\ Fr.n_allocate = 0 /\ Fr.n_addsample = 0 /\ Fr.n_run = 0 /\ Fr.n_solve = 0
        /\ Fr.pc \in {"branch", "done"}
        /\ Fr.pc = "done" =>
              \A g \in 1..NumGroups : \A d \in 1..self.D : PhiAt(g, d) = RZero

C2_Witness == Fr.pc = "done" /\ self.M = 0 /\ NoGroupVaries /\ NumGroups > 1

\* C3: a call with exactly one varying group g returns
\* phi[g, d] = link(fx[d]) - link(fnull[d]) and 0 for the other groups, and
\* has sampled no coalition, evaluated no synthetic batch and run no solve
C3_SingleVarying ==
    (Fr.pc = "done" /\ self.M = 1) =>
        /\ \A g \in 1..NumGroups : \A d \in 1..self.D :
              PhiAt(g, d) = IF g = self.varyingInds[1] THEN TotalDiff(d) ELSE RZero
        /\ Fr.n_allocate = 0 /\ Fr.n_addsample = 0 /\ Fr.n_run = 0 /\ Fr.n_solve = 0

C3_Witness ==
    /\ Fr.pc = "done" /\ self.M = 1 /\ self.varyingInds[1] > 1
    /\ TotalDiff(1) # RZero /\ self.fnull[1] # RZero

C5_ComplementPairing ==
    Sampling =>
        \A i \in 1..EnumRows :
            RowSize(i) <= Fr.num_paired_subset_sizes =>
                /\ i + 1 <= EnumRows
                /\ self.maskMatrix[i + 1] = [j \in 1..self.M |-> 1 - self.maskMatrix[i][j]]
                /\ self.kernelWeights[i + 1] = self.kernelWeights[i]

C5_Witness ==
    /\ Fr.pc = "run" /\ Fr.nfixed_samples > 0 /\ Fr.num_paired_subset_sizes > 0
    /\ self.nsamplesAdded > Fr.nfixed_samples

\* C6: the rows of the mask matrix that have been added are pairwise distinct
C6_DistinctRows ==
    Sampling =>
        \A i, j \in 1..self.nsamplesAdded :
            i # j => self.maskMatrix[i] # self.maskMatrix[j]

\* a repeated draw happened in a random phase that added complements
C6_Witness ==
    /\ Fr.pc = "run" /\ Fr.ind_set_pos > Cardinality(Fr.used_masks)
    /\ self.nsamplesAdded - Fr.nfixed_samples > Cardinality(Fr.used_masks)

\* C7: after sampling, the kernel weights of the enumerated rows sum to the
\* weight of the enumerated sizes, those of the random rows to the weight of
\* the other sizes, all of them to 1, and none is negative
C7_WeightNormalization ==
    Sampled =>
        /\ WeightOfRows(1, Fr.nfixed_samples) = WeightOfSizes(1, Fr.num_full_subsets)
        /\ WeightOfRows(Fr.nfixed_samples + 1, self.nsamplesAdded)
              = WeightOfSizes(Fr.num_full_subsets + 1, Len(Fr.weight_vector))
        /\ WeightOfRows(1, self.nsamplesAdded) = ROne
        /\ \A i \in 1..Len(self.kernelWeights) : self.kernelWeights[i][1] >= 0

\* both phases have weight, and the random rows have unequal weights
C7_Witness ==
    /\ Sampled /\ Fr.nfixed_samples > 0
    /\ \E i, j \in (Fr.nfixed_samples + 1)..self.nsamplesAdded :
          self.kernelWeights[i] # self.kernelWeights[j]

\* C8: the target function is invoked on the synthetic batch at most once
\* per call, exactly once in a finished call with M >= 2 and never with
\* M <= 1; the invocation comes after every addsample, before any solve, and
\* covers every added slot
C8_SingleBatch ==
    /\ Fr.n_run <= 1
    /\ Fr.n_solve > 0 => Fr.n_run = 1
    /\ Fr.n_run = 1 =>
          /\ self.nsamplesRun = self.nsamplesAdded
          /\ self.nsamplesRun = Fr.n_addsample
    /\ Fr.n_run = 0 => (Fr.n_solve = 0 /\ self.nsamplesRun = 0)
    /\ Fr.pc = "done" => Fr.n_run = (IF self.M >= 2 THEN 1 ELSE 0)

C8_Witness == Fr.pc = "done" /\ Fr.n_run = 1 /\ Fr.n_addsample > 2 /\ Fr.n_solve = 2

(***************************************************************************)
(* Properties of calls that follow or overlap other calls.                 *)
(***************************************************************************)
\* C9 as stated: a call that returns, interleaved with another call on the
\* same Explainer, returns the phi it returns alone
C9_AsStated ==
    \A t \in Threads :
        (frames[t].pc = "done" /\ alone[t].fr.pc = "done") =>
            frames[t].phi = alone[t].fr.phi

\* C9: a call in which no step of another call on the same Explainer falls
\* ends as it ends alone: it returns the same phi or raises the same error
C9_AloneUnlessOverlapped ==
    \A t \in Threads :
        (frames[t].pc \in {"done", "raised"} /\ ~overlap[t]) =>
            alone[t].fr = frames[t]

\* a call has returned on buffers that the earlier call of the other thread
\* left behind
C9_Witness ==
    \E t \in Threads : \E u \in Threads \ {t} :
        /\ frames[t].pc = "done" /\ ~overlap[t] /\ frames[t].n_solve > 0
        /\ frames[u].pc = "done" /\ frames[u].n_solve > 0
        /\ frames[u].x # frames[t].x

\* C10: a call that follows other calls on the same Explainer ends as the
\* same call with the same draws ends on a new Explainer: it returns the
\* same phi or raises the same error
C10_Deterministic ==
    \A t \in Threads :
        frames[t].pc \in {"done", "raised"} => alone[t].fr = frames[t]

\* a call that drew random coalitions has returned after an earlier call
C10_Witness ==
    /\ ncalls >= 2 /\ frames[1].pc = "done" /\ frames[1].n_solve > 0
    /\ frames[1].ind_set_pos > 0
    /\ alone[1].fr.phi = frames[1].phi

(***************************************************************************)
(* Properties of the stages of one explain() call (Spec).                  *)
(***************************************************************************)
\* group g of the background has a column where the instance differs from a
\* background row
GroupVaries(g) ==
    \E r \in 1..self.N : \E k \in 1..Len(self.data.groups[g]) :
        Fr.x[self.data.groups[g][k]] # self.data.data[r][self.data.groups[g][k]]

\* column c belongs to a varying group that row i of the mask matrix marks
ColumnKnown(i, c) ==
    \E j \in 1..self.M :
        /\ self.maskMatrix[i][j] = 1
        /\ \E k \in 1..Len(self.data.groups[self.varyingInds[j]]) :
              self.data.groups[self.varyingInds[j]][k] = c

\* C11: the varying groups are listed in ascending group order; column j of
\* the mask matrix stands for group varyingInds[j] in the synthetic data and
\* in the solution: every added slot holds the instance in the columns of
\* the marked groups and the background elsewhere, the returned phi is 0 at
\* every non-varying group, and for the additive model solved on all groups
\* the coefficient of group g is the instance's value of g
C11_GroupOrder ==
    Fr.pc # "idle" =>
        /\ \A j \in 1..self.M : self.varyingInds[j] \in 1..NumGroups
        /\ \A j \in 1..(self.M - 1) : self.varyingInds[j] < self.varyingInds[j + 1]
        /\ \A g \in 1..NumGroups :
              GroupVaries(g) <=> \E j \in 1..self.M : self.varyingInds[j] = g
        /\ \A j \in 1..self.M :
              self.varyingFeatureGroups[j] = self.data.groups[self.varyingInds[j]]
        /\ Sampling =>
              \A i \in 1..self.nsamplesAdded : \A r \in 1..self.N : \A c \in 1..self.P :
                  self.synth_data[(i - 1) * self.N + r][c]
                      = IF ColumnKnown(i, c) THEN Fr.x[c] ELSE self.data.data[r][c]
        /\ Fr.pc = "done" =>
              /\ \A g \in 1..NumGroups : \A d \in 1..self.D :
                    ~GroupVaries(g) => PhiAt(g, d) = RZero
              /\ (self.model = "sum" /\ Fr.n_select = 0) =>
                    \A g \in 1..NumGroups : PhiAt(g, 1) = R(Fr.x[g])

\* a solved call whose varying groups are not the first groups
C11_Witness ==
    /\ Fr.pc = "done" /\ Fr.n_solve > 0 /\ Fr.n_select = 0 /\ self.model = "sum"
    /\ self.M >= 2 /\ self.varyingInds[1] > 1
    /\ Fr.nfixed_samples < self.nsamplesAdded

\* the normal equations of the last solve() are singular
SingularSolve ==
    /\ Len(Fr.nonzero_inds) > 0
    /\ Det(NormalMatrix(self, Fr.nonzero_inds)) = RZero

\* C13: a solve() whose normal-equations matrix is singular raises
\* LinAlgError out of explain(): the call is over without a phi, the failed
\* dimension was attempted once, and a call that goes on or returns has
\* inverted a non-singular matrix
C13_SingularRaises ==
    Fr.n_solve > 0 =>
        /\ SingularSolve <=> (Fr.pc = "raised" /\ Fr.exc = "LinAlgError")
        /\ SingularSolve => (Fr.n_solve = Fr.d + 1 /\ Fr.n_inv >= 1)
        /\ Fr.pc \in {"solve", "done"} => Fr.n_solve = Fr.d

\* the second output dimension failed after the first was solved
C13_Witness ==
    /\ Fr.pc = "raised" /\ Fr.exc = "LinAlgError" /\ SingularSolve
    /\ Len(Fr.nonzero_inds) > 1

\* C14: solve() runs the feature selection exactly when l1_reg is an explicit
\* mode, or is "auto" with nsamples / max_samples below 0.2; with l1_reg off
\* every solve takes all M features; under "auto" the selection is by AIC,
\* every solve emits the deprecation warning, and the warning does not end
\* the call: it returns phi unless a singular solve raises
C14_SelectionMode ==
    Fr.n_solve > 0 =>
        /\ Fr.n_select =
              (IF \/ self.l1_reg \notin {"auto", "off"}
                  \/ (self.l1_reg = "auto"
                        /\ RLt(Rat(self.nsamples, self.max_samples), Rat(1, 5)))
               THEN Fr.n_solve ELSE 0)
        /\ Fr.n_select = 0 =>
              (Fr.selector = "none" /\ Fr.nonzero_inds = [j \in 1..self.M |-> j])
        /\ self.l1_reg = Fr.kw_l1_reg
        /\ self.l1_reg = "auto" =>
              /\ Fr.n_warn = Fr.n_solve
              /\ Fr.n_select > 0 => Fr.selector = "aic"
              /\ Fr.pc \in {"solve", "done", "raised"}
              /\ Fr.pc = "raised" => (Fr.exc = "LinAlgError" /\ SingularSolve)
        /\ self.l1_reg # "auto" => Fr.n_warn = 0

\* a call under "auto" has selected features, warned and returned phi
C14_Witness ==
    /\ Fr.pc = "done" /\ self.l1_reg = "auto" /\ Fr.n_select = 2 /\ Fr.n_warn = 2
    /\ Fr.selector = "aic" /\ Len(Fr.nonzero_inds) = 2

\* the rows of the mask matrix that have been added
AddedMasks == {self.maskMatrix[i] : i \in 1..self.nsamplesAdded}

\* C15: for f(x) = x0 + x1 + x2, the background row [0, 0, 0] and an instance
\* x of three non-zero integers: fnull = 0, fx = x0 + x1 + x2, M = 3, the
\* budget is 6, the exact enumeration adds each of the 6 non-trivial
\* coalitions once, no random coalition is drawn, and the call returns phi = x
C15_Scenario ==
    Fr.pc # "idle" =>
        /\ self.fnull = <<RZero>>
        /\ self.fx = <<R(Fr.x[1] + Fr.x[2] + Fr.x[3])>>
        /\ self.M = 3 /\ self.varyingInds = <<1, 2, 3>>
        /\ Fr.pc \notin {"draw", "raised"}
        /\ Fr.n_allocate = 1 => self.nsamples = 6
        /\ Fr.pc \in {"run", "solve", "done"} =>
              /\ Fr.nfixed_samples = 6 /\ self.nsamplesAdded = 6
              /\ Fr.n_addsample = 6
              /\ Fr.ind_set_len = 0 /\ Fr.used_masks = {}
              /\ AddedMasks = {m \in [1..3 -> {0, 1}] :
                                  ISum(m) \in {1, 2}}
        /\ Fr.pc = "done" =>
              /\ Fr.phi = [g \in 1..3 |-> R(Fr.x[g])]
              /\ Fr.n_select = 0

\* the call on x = [1, 2, 3] with the default options has returned [1, 2, 3]
C15_Witness ==
    /\ Fr.pc = "done" /\ Fr.x = <<1, 2, 3>>
    /\ Fr.kw_nsamples = Auto /\ Fr.kw_l1_reg = "auto"
    /\ Fr.phi = <<R(1), R(2), R(3)>>
    /\ self.model = "sum" /\ self.P = 3 /\ self.N = 1

PhiVarAt(g, d) == IF self.vector_out THEN Fr.phi_var[g][d] ELSE Fr.phi_var[g]

SizeMasks(k) == {m \in [1..self.M -> {0, 1}] : ISum(m) = k}
\* the enumerated rows that hold the mask m
RowsOf(m) == {i \in 1..EnumRows : self.maskMatrix[i] = m}
PairedSize(k) == k <= Fr.num_paired_subset_sizes
\* the rows that the enumeration of size k adds
CountOf(k) == Cardinality(SizeMasks(k)) * (IF PairedSize(k) THEN 2 ELSE 1)
\* the sizes whose enumeration is finished
CompleteSizes ==
    IF Fr.pc = "enum_add" THEN Fr.num_full_subsets - 1 ELSE Fr.num_full_subsets

\* C17: the enumeration goes through the sizes 1..ceil((M-1)/2) in increasing
\* order and stops at the first size that fails the test, so the enumerated
\* sizes are a prefix 1..F; each coalition of an enumerated size is one row,
\* with its complement in one more row when the size is paired, the budget
\* that is left went down by that count; each primary mask of the random
\* phase has a size above F and at most ceil((M-1)/2); each row that was
\* added knows between 1 and M-1 groups.
C17_EnumerationPrefix ==
    Sampling =>
      /\ Fr.num_subset_sizes = (self.M - 1 + 1) \div 2
      /\ Fr.num_full_subsets <= Fr.num_subset_sizes
      /\ Fr.pc = "enum" => Fr.subset_size = Fr.num_full_subsets + 1
      /\ Fr.pc = "enum_add" => Fr.subset_size = Fr.num_full_subsets
      /\ \A k \in 1..CompleteSizes : \A m \in SizeMasks(k) :
            /\ Cardinality(RowsOf(m)) = 1
            /\ PairedSize(k) => Cardinality(RowsOf(Array(Complement(m)))) = 1
      /\ \A i \in 1..EnumRows :
            \/ RowSize(i) \in 1..Fr.num_full_subsets
            \/ /\ self.M - RowSize(i) \in 1..Fr.num_full_subsets
               /\ PairedSize(self.M - RowSize(i))
      /\ Fr.num_samples_left =
            self.nsamples
              - ISum([k \in 1..Fr.num_full_subsets |-> CountOf(k)])
      /\ (Fr.pc = "random" /\ Fr.num_full_subsets < Fr.num_subset_sizes) =>
            ~AtLeastOne(RDiv(RMul(R(Fr.num_samples_left),
                    Fr.remaining_weight_vector[Fr.num_full_subsets + 1]),
                    R(CountOf(Fr.num_full_subsets + 1))))
      /\ \A u \in Fr.used_masks :
            /\ ISum(u.mask) > Fr.num_full_subsets
            /\ ISum(u.mask) <= Fr.num_subset_sizes
      /\ \A i \in 1..self.nsamplesAdded :
            RowSize(i) >= 1 /\ RowSize(i) <= self.M - 1

\* a size was enumerated in full and the random phase drew primaries after it
C17_Witness ==
    /\ Fr.pc = "run"
    /\ Fr.num_full_subsets >= 1
    /\ Fr.num_full_subsets < Fr.num_subset_sizes
    /\ Cardinality(Fr.used_masks) >= 2
    /\ self.nsamplesAdded > EnumRows


\* the pass of the while loop that draws the coalition m, of a size with index
\* ind, when used_masks holds m already
DuplicateDraw(ind, m) ==
    /\ Fr.pc = "draw"
    /\ frames[1]'.pc = "draw"
    /\ frames[1]'.ind_set_pos = Fr.ind_set_pos + 1
    /\ ISum(m) = ind + Fr.num_full_subsets + 1
    /\ SeenRows(Fr, m) # {}
    /\ [self |-> self', fr |-> frames[1]'] =
          ExplainRandomDraw(self, Fr,
                            [ind |-> ind, subset |-> {j \in 1..self.M : m[j] = 1}])

\* what the pass leaves when it drew the coalition m again
DuplicateEffect(m) ==
    LET r == (CHOOSE u \in SeenRows(Fr, m) : TRUE).row + 1
        paired == ISum(m) <= Fr.num_paired_subset_sizes
    IN  /\ Cardinality(SeenRows(Fr, m)) = 1
        /\ self'.nsamplesAdded = self.nsamplesAdded
        /\ self'.maskMatrix = self.maskMatrix
        /\ self'.synth_data = self.synth_data
        /\ frames[1]'.samples_left = Fr.samples_left
        /\ frames[1]'.used_masks = Fr.used_masks
        /\ frames[1]'.n_addsample = Fr.n_addsample
        /\ r > Fr.nfixed_samples /\ r <= self.nsamplesAdded
        /\ self.maskMatrix[r] = m
        /\ \A i \in 1..(r - 1) : self.maskMatrix[i] # m
        /\ paired => /\ r + 1 <= self.nsamplesAdded
                     /\ self.maskMatrix[r + 1] = Array(Complement(m))
        /\ \A i \in 1..Len(self.kernelWeights) :
              self'.kernelWeights[i] =
                 IF i = r \/ (paired /\ i = r + 1)
                 THEN RAdd(self.kernelWeights[i], ROne)
                 ELSE self.kernelWeights[i]

\* C18: a draw of the random phase whose primary mask was drawn before adds no
\* row and takes nothing from the budget; it adds 1 to the weight of the row
\* that first stored the mask and, for a paired size, 1 to the weight of the
\* next row, which holds the complement of the mask.
C18_DuplicateDraw ==
    [][\A ind \in 0..self.M : \A m \in [1..self.M -> {0, 1}] :
          DuplicateDraw(ind, m) => DuplicateEffect(m)]_vars

\* a paired coalition was drawn twice: its row and the row of its complement
\* weigh 2
C18_Witness ==
    /\ Fr.pc = "draw"
    /\ \E u \in Fr.used_masks :
          /\ ISum(u.mask) <= Fr.num_paired_subset_sizes
          /\ self.kernelWeights[u.row + 1] = R(2)
          /\ self.kernelWeights[u.row + 2] = R(2)
          /\ self.maskMatrix[u.row + 2] = Array(Complement(u.mask))


\* a step of the sampling that calls addsample(), once or for a coalition and
\* its complement
AddsampleStep ==
    /\ Fr.pc \in {"enum_add", "draw"}
    /\ self'.nsamplesAdded > self.nsamplesAdded

\* slot i of the three buffers that addsample() writes
Slot(slf, i) ==
    [rows   |-> SubSeq(slf.synth_data, (i - 1) * slf.N + 1, i * slf.N),
     mask   |-> slf.maskMatrix[i],
     weight |-> slf.kernelWeights[i]]

\* C19: addsample(x, m, w) at cursor i writes slot i only: its N synthetic
\* rows take the instance's values in the columns of the varying groups that
\* m marks and keep the tiled background in every other column, mask row i
\* is m, weight i is w and the cursor is i + 1; every other slot and the
\* background dataset are as before.
C19_AddsampleFrame ==
    [][AddsampleStep =>
         LET a  == self.nsamplesAdded
             a2 == self'.nsamplesAdded
             w  == IF Fr.pc = "enum_add" THEN Fr.w ELSE ROne
             size == IF Fr.pc = "enum_add" THEN Fr.subset_size
                     ELSE frames[1]'.subset_size
         IN  /\ a2 - a \in {1, 2}
             /\ a2 - a = frames[1]'.n_addsample - Fr.n_addsample
             /\ self'.data = self.data
             /\ Len(self'.synth_data) = Len(self.synth_data)
             /\ Len(self'.maskMatrix) = Len(self.maskMatrix)
             /\ Len(self'.kernelWeights) = Len(self.kernelWeights)
             /\ \A i \in 1..self.nsamples :
                   i \notin (a + 1)..a2 => Slot(self', i) = Slot(self, i)
             /\ ISum(self'.maskMatrix[a + 1]) = size
             /\ a2 = a + 2 =>
                   self'.maskMatrix[a + 2] = Array(Complement(self'.maskMatrix[a + 1]))
             /\ \A i \in (a + 1)..a2 :
                   /\ self'.kernelWeights[i] = w
                   /\ \A r \in 1..self.N : \A c \in 1..self.P :
                         self'.synth_data[(i - 1) * self.N + r][c] =
                            IF ColumnKnown(i, c)' THEN Fr.x[c]
                            ELSE self.synth_data[(i - 1) * self.N + r][c]
                   /\ \A r \in 1..self.N : \A c \in 1..self.P :
                         ~ColumnKnown(i, c)' =>
                            self'.synth_data[(i - 1) * self.N + r][c]
                               = self.data.data[r][c]]_vars

\* the random phase added slots of several background rows each, with free
\* slots left behind them and a column of the last slot left to the
\* background
C19_Witness ==
    /\ Fr.pc = "draw"
    /\ self.nsamplesAdded > Fr.nfixed_samples
    /\ self.nsamplesAdded < self.nsamples
    /\ self.N > 1
    /\ \E c \in 1..self.P : ~ColumnKnown(self.nsamplesAdded, c)


(***************************************************************************)
(* Properties of run() (Spec).                                             *)
(***************************************************************************)
\* the step of explain() that calls run()
RunStep == Fr.pc = "run" /\ frames[1]'.pc = "solve"

\* the slots run() evaluates: those added and not yet run
SlotsToRun == (self.nsamplesRun + 1)..self.nsamplesAdded

\* the cursors of the buffers are in order
CursorsInOrder ==
    /\ 0 <= self.nsamplesRun
    /\ self.nsamplesRun <= self.nsamplesAdded
    /\ self.nsamplesAdded <= self.nsamples

\* what run() leaves: the outputs and their weighted sums for the slots it
\* evaluated, everything else as before
RunEffect ==
    /\ self'.nsamplesRun = self.nsamplesAdded
    /\ self'.nsamplesAdded = self.nsamplesAdded
    /\ self'.synth_data = self.synth_data
    /\ self'.maskMatrix = self.maskMatrix
    /\ self'.kernelWeights = self.kernelWeights
    /\ Len(self'.ey) = Len(self.ey) /\ Len(self'.y) = Len(self.y)
    /\ \A i \in 1..self.nsamples :
          IF i \in SlotsToRun
          THEN /\ \A j \in 1..self.N :
                     self'.y[(i - 1) * self.N + j]
                        = F(self.model, self.synth_data[(i - 1) * self.N + j])
               /\ \A d \in 1..self.D :
                     self'.ey[i][d] =
                        RSum([j \in 1..self.N |->
                                RMul(self'.y[(i - 1) * self.N + j][d], self.weights[j])])
          ELSE /\ self'.ey[i] = self.ey[i]
               /\ \A j \in 1..self.N :
                     self'.y[(i - 1) * self.N + j] = self.y[(i - 1) * self.N + j]

C12_ValidationFirst ==
    /\ api.pc = "raised" => api.n_null = 0
    /\ api.pc = "rejected" =>
          /\ api.n_null = 1
          /\ ncalls = 0
          /\ frames[1] = IdleFrame
          /\ self = ExplainerInit(ConfigOf(self))


(***************************************************************************)
(* Properties of the random phase (Spec).                                  *)
(***************************************************************************)
\* the while loop of the random phase was entered
RandomPhase ==
    /\ Fr.pc \in {"draw", "run", "solve", "done"}
    /\ Fr.n_allocate = 1
    /\ Fr.num_full_subsets < Fr.num_subset_sizes

\* the while loop is over
RandomPhaseOver == RandomPhase /\ Fr.pc # "draw"

\* a pass of the while loop
DrawStep == Fr.pc = "draw" /\ frames[1]'.ind_set_pos # Fr.ind_set_pos

\* the rows no addsample() has written
FreeRows == (self.nsamplesAdded + 1)..self.nsamples

\* the draws are counted against a pool of 4 times the budget the enumeration
\* left, and the loop is left only with the budget consumed or the pool
\* exhausted; the rows it leaves unpopulated are all-zero masks of weight 0
RandomPhaseBounded ==
    RandomPhase =>
      /\ Fr.ind_set_len = 4 * (self.nsamples - Fr.nfixed_samples)
      /\ Fr.ind_set_pos >= 0 /\ Fr.ind_set_pos <= Fr.ind_set_len
      /\ Fr.samples_left = self.nsamples - self.nsamplesAdded
      /\ Fr.samples_left >= 0
      /\ Len(self.maskMatrix) = self.nsamples
      /\ Len(self.kernelWeights) = self.nsamples
      /\ \A i \in FreeRows :
            /\ self.maskMatrix[i] = Zeros(self.M)
            /\ self.kernelWeights[i] = RZero
      /\ RandomPhaseOver =>
            /\ Fr.samples_left = 0 \/ Fr.ind_set_pos = Fr.ind_set_len
            /\ Fr.samples_left > 0 =>
                  (self.nsamplesAdded < self.nsamples /\ FreeRows # {})

\* a pass is made only with budget and pool left, and takes one size from the
\* pool: what is left of the pool, never negative, goes down by one
DrawStepGuarded ==
    DrawStep =>
      /\ Fr.samples_left > 0
      /\ Fr.ind_set_pos < Fr.ind_set_len
      /\ frames[1]'.ind_set_pos = Fr.ind_set_pos + 1
      /\ frames[1]'.ind_set_len = Fr.ind_set_len
      /\ frames[1]'.samples_left <= Fr.samples_left

\* the loop does not stand still: with budget and pool left np.random.choice
\* has a size to give, without them the loop is left
LoopGoesOn ==
    Fr.pc = "draw" =>
        IF Fr.samples_left > 0 /\ Fr.ind_set_pos < Fr.ind_set_len
        THEN DrawableInds(Fr) # {}
        ELSE ExplainRandomFinish(self, Fr).fr.pc \in {"run", "raised"}

\* C21: the random phase terminates: it makes at most 4 x samples_left
\* draws, samples_left being the budget the enumeration left (every pass takes
\* one size from a pool of that length), and stops as soon as the budget is
\* consumed or the pool of sizes is exhausted; when the pool is exhausted
\* first, fewer than nsamples rows are populated and every unpopulated row has
\* an all-zero mask and kernel weight 0.
C21_RandomPhaseTerminates ==
    /\ []RandomPhaseBounded
    /\ []LoopGoesOn
    /\ [][DrawStepGuarded]_vars

\* the pool was exhausted with budget left: rows stay unpopulated
C21_Witness ==
    /\ RandomPhaseOver
    /\ Fr.samples_left > 0
    /\ Fr.ind_set_pos = Fr.ind_set_len
    /\ Fr.ind_set_pos > Cardinality(Fr.used_masks)
    /\ Fr.nfixed_samples > 0


(***************************************************************************)
(* Properties of a call whose budget covers every coalition (Spec).        *)
(***************************************************************************)
\* nsamples as the caller asked for it
Requested ==
    IF Fr.kw_nsamples.auto THEN 2 * self.M + AutoBase ELSE Fr.kw_nsamples.n

\* the call has at least two varying groups, few enough for max_samples to
\* count their coalitions, and a budget of at least that count
FullBudget ==
    /\ Fr.pc \in {"enum", "enum_add", "random", "draw", "run", "solve", "done", "raised"}
    /\ Fr.n_allocate = 1
    /\ self.M >= 2 /\ self.M <= EnumerableM
    /\ Requested >= 2 ^ self.M - 2

\* the coalitions that are neither empty nor all the varying groups
NonTrivialMasks ==
    {m \in [1..self.M -> {0, 1}] : ISum(m) >= 1 /\ ISum(m) <= self.M - 1}

\* C22: with 2 <= M <= 30 and a requested budget of at least 2^M - 2,
\* nsamples is 2^M - 2 and the test of the enumeration succeeds for every
\* size: every non-trivial coalition is added exactly once by the
\* enumeration, the random phase is skipped, and
\* nsamplesAdded = nsamples = 2^M - 2.
C22_FullEnumeration ==
    FullBudget =>
      /\ self.nsamples = 2 ^ self.M - 2
      /\ self.max_samples = 2 ^ self.M - 2
      /\ Fr.pc # "draw"
      /\ Fr.pc = "raised" => (Fr.exc = "LinAlgError" /\ Fr.n_solve > 0)
      /\ Fr.pc = "random" => Fr.num_full_subsets = Fr.num_subset_sizes
      /\ Fr.pc \in {"random", "run", "solve", "done", "raised"} =>
            /\ Fr.num_full_subsets = Fr.num_subset_sizes
            /\ Fr.num_samples_left = 0
            /\ self.nsamplesAdded = self.nsamples
            /\ Fr.n_addsample = 2 ^ self.M - 2
            /\ \A m \in NonTrivialMasks :
                  Cardinality({i \in 1..self.nsamplesAdded :
                                  self.maskMatrix[i] = m}) = 1
      /\ Fr.pc \in {"run", "solve", "done", "raised"} =>
            /\ Fr.nfixed_samples = self.nsamples
            /\ Fr.samples_left = 0
            /\ Fr.ind_set_pos = 0
            /\ Fr.used_masks = {}

\* a call on four varying groups returned after the enumeration of its 14
\* coalitions: a paired size and the unpaired size in the middle
C22_Witness ==
    /\ FullBudget
    /\ Fr.pc = "done"
    /\ self.M = 4
    /\ self.nsamplesAdded = 14
    /\ Fr.num_full_subsets = 2

====
